---- MODULE Spec2Model ----
(***************************************************************************)
(* A model of the quiz engine of react-lms: the useQuizState hook (the     *)
(* quiz state machine) and the grading functions it calls.                 *)
(*                                                                         *)
(* React's scheduling is modelled explicitly.  `rendered` is the QuizState *)
(* of the last committed render: it is what every callback closure and     *)
(* every memo (canGoNext, canGoPrevious, canSubmitQuiz, progress) reads.   *)
(* `state` is that state with the queued functional updaters applied in    *)
(* order: setState(prev => ...) composes, so applying each updater at once *)
(* to `state` gives the state the next render commits.  Render commits it. *)
(***************************************************************************)
EXTENDS Integers, Sequences, FiniteSets, TLC

\* ------------------------------------------------------------------ bounds

\* Calls issued against one render before React commits the queued updates.
MaxBatch == 2
\* Elapsed seconds the per-second tick may report.
MaxTime == 1

\* ----------------------------------------------------------------- numbers
\* JavaScript numbers as exact rationals n/d, extended with NaN and the two
\* infinities that the divisions of the graders can produce.

RECURSIVE GCD(_, _)
GCD(a, b) == IF b = 0 THEN a ELSE GCD(b, a % b)

Abs(x) == IF x < 0 THEN -x ELSE x

Fin(n, d) ==
    LET g == GCD(Abs(n), Abs(d))
        s == IF d < 0 THEN -1 ELSE 1
    IN  [k |-> "fin", n |-> s * (n \div g), d |-> s * (d \div g)]

IntNum(i) == [k |-> "fin", n |-> i, d |-> 1]
NaN == [k |-> "nan", n |-> 0, d |-> 1]
PosInf == [k |-> "inf", n |-> 1, d |-> 1]
NegInf == [k |-> "inf", n |-> -1, d |-> 1]
Undefined == [k |-> "undef", n |-> 0, d |-> 1]
Zero == IntNum(0)

\* x + y
NumAdd(x, y) ==
    IF x.k = "nan" \/ y.k = "nan" THEN NaN
    ELSE IF x.k = "inf" /\ y.k = "inf" THEN (IF x.n = y.n THEN x ELSE NaN)
    ELSE IF x.k = "inf" THEN x
    ELSE IF y.k = "inf" THEN y
    ELSE Fin(x.n * y.d + y.n * x.d, x.d * y.d)

NumNeg(x) == IF x.k = "nan" THEN NaN ELSE [x EXCEPT !.n = -x.n]

\* x - y
NumSub(x, y) == NumAdd(x, NumNeg(y))

Sign(i) == IF i > 0 THEN 1 ELSE IF i < 0 THEN -1 ELSE 0

\* x * y
NumMul(x, y) ==
    IF x.k = "nan" \/ y.k = "nan" THEN NaN
    ELSE IF x.k = "inf" \/ y.k = "inf"
         THEN (IF Sign(x.n) * Sign(y.n) = 0 THEN NaN
               ELSE IF Sign(x.n) * Sign(y.n) > 0 THEN PosInf ELSE NegInf)
    ELSE Fin(x.n * y.n, x.d * y.d)

\* x / y
NumDiv(x, y) ==
    IF x.k = "nan" \/ y.k = "nan" THEN NaN
    ELSE IF x.k = "inf" /\ y.k = "inf" THEN NaN
    ELSE IF x.k = "inf" THEN (IF Sign(x.n) * Sign(y.n) >= 0 THEN x ELSE NumNeg(x))
    ELSE IF y.k = "inf" THEN Zero
    ELSE IF y.n = 0
         THEN (IF x.n = 0 THEN NaN ELSE IF x.n > 0 THEN PosInf ELSE NegInf)
    ELSE Fin(x.n * y.d, x.d * y.n)

\* x <= y, x < y, x > y as JavaScript compares: false whenever a NaN is involved
NumLe(x, y) ==
    IF x.k = "nan" \/ y.k = "nan" THEN FALSE
    ELSE IF x.k = "inf" THEN (x.n < 0 \/ (y.k = "inf" /\ y.n > 0))
    ELSE IF y.k = "inf" THEN y.n > 0
    ELSE x.n * y.d <= y.n * x.d

NumLt(x, y) == NumLe(x, y) /\ x # y
NumGe(x, y) == NumLe(y, x)
NumGt(x, y) == NumLt(y, x)

\* A partial credit that is not floored at zero.
M_MathMax0_NoFloor(x) == x

\* Math.max(0, x): NaN when x is NaN
MathMax0(x) == IF x.k = "nan" THEN NaN ELSE IF NumLe(x, Zero) THEN Zero ELSE x

\* x || 0 on a number or undefined: 0, NaN and undefined are falsy
OrZero(x) == IF x.k \in {"nan", "undef"} \/ x = Zero THEN Zero ELSE x

\* ------------------------------------------------------------------ values
\* The value of a QuestionAnswer (typed `any`): null, a boolean, a string, an
\* array of option ids, or a record of blank/pair id -> string (a function
\* from the ids it has to strings).  A JavaScript string that the code compares or
\* transforms (an option id, an answer text) is a sequence of one-character
\* strings; question ids, which are only map keys, are TLA+ strings.

NullV == [kind |-> "null", b |-> FALSE, s |-> <<>>, a |-> <<>>, r |-> <<>>]
BoolV(x) == [kind |-> "bool", b |-> x, s |-> <<>>, a |-> <<>>, r |-> <<>>]
StrV(x) == [kind |-> "str", b |-> FALSE, s |-> x, a |-> <<>>, r |-> <<>>]
ArrV(x) == [kind |-> "arr", b |-> FALSE, s |-> <<>>, a |-> x, r |-> <<>>]
RecV(x) == [kind |-> "rec", b |-> FALSE, s |-> <<>>, a |-> <<>>, r |-> x]

\* JavaScript truthiness of a value: null, false and '' are falsy; arrays and
\* objects, empty or not, are truthy.
Truthy(v) ==
    CASE v.kind = "null" -> FALSE
      [] v.kind = "bool" -> v.b
      [] v.kind = "str" -> v.s # <<>>
      [] OTHER -> TRUE

\* QuestionAnswer
Answer(qid, v, answered, attempt) ==
    [questionId |-> qid, value |-> v, isAnswered |-> answered, attemptNumber |-> attempt]

\* ----------------------------------------------------------------- grading

GradingResult(correct, partial, score, max, fb) ==
    [isCorrect |-> correct, isPartiallyCorrect |-> partial, score |-> score,
     maxScore |-> max, feedback |-> fb]

\* A missing-answer result that carries no feedback message.
M_NoAnswerResult_NoFeedback(points) ==
    GradingResult(FALSE, FALSE, Zero, IntNum(points), "")

\* The result every grader returns for a missing answer; feedback "" stands
\* for an absent feedback field.
NoAnswerResult(points) ==
    GradingResult(FALSE, FALSE, Zero, IntNum(points), "No answer provided")

ManualGradingResult(points) ==
    GradingResult(FALSE, FALSE, Zero, IntNum(points), "This question requires manual grading")

\* array.filter(pred).length
RECURSIVE CountIn(_, _)
CountIn(seq, set) ==
    IF seq = <<>> THEN 0
    ELSE (IF Head(seq) \in set THEN 1 ELSE 0) + CountIn(Tail(seq), set)

gradeMultipleChoice(config, answer) ==
    LET correctOptionIds == {config.options[i].id :
                               i \in {j \in 1..Len(config.options) : config.options[j].isCorrect}}
        v == answer.value
        userAnswers == IF v.kind = "arr" THEN v.a
                       ELSE IF Truthy(v) THEN <<v.s>>
                       ELSE <<>>
        points == IntNum(config.points)
    IN  IF ~answer.isAnswered \/ Len(userAnswers) = 0
        THEN NoAnswerResult(config.points)
        ELSE IF ~config.allowMultiple
        THEN LET isCorrect == Len(userAnswers) = 1 /\ userAnswers[1] \in correctOptionIds
             IN  GradingResult(isCorrect, FALSE, IF isCorrect THEN points ELSE Zero, points, "")
        ELSE LET correctCount == CountIn(userAnswers, correctOptionIds)
                 incorrectCount == Len(userAnswers) - correctCount
                 nCorrect == Len(SelectSeq(config.options, LAMBDA opt : opt.isCorrect))
                 isFullyCorrect == correctCount = nCorrect /\ incorrectCount = 0
                 isPartiallyCorrect == correctCount > 0 /\ ~isFullyCorrect
                 percentCorrect == NumDiv(IntNum(correctCount), IntNum(nCorrect))
                 penalty == NumDiv(IntNum(incorrectCount), IntNum(nCorrect))
                 finalPercent == MathMax0(NumSub(percentCorrect, penalty))
             IN  GradingResult(isFullyCorrect, isPartiallyCorrect,
                               NumMul(finalPercent, points), points, "")

gradeTrueFalse(config, answer) ==
    IF ~answer.isAnswered \/ answer.value.kind = "null"
    THEN NoAnswerResult(config.points)
    ELSE LET isCorrect == answer.value.kind = "bool" /\ answer.value.b = config.correctAnswer
         IN  GradingResult(isCorrect, FALSE,
                           IF isCorrect THEN IntNum(config.points) ELSE Zero,
                           IntNum(config.points), "")

\* String.prototype.toLowerCase over the letters the model's strings use
toLowerCase(s) ==
    [i \in 1..Len(s) |-> IF s[i] = "A" THEN "a" ELSE IF s[i] = "B" THEN "b" ELSE s[i]]

\* String.prototype.trim: leading and trailing blanks removed
RECURSIVE trim(_)
trim(s) ==
    IF s = <<>> THEN s
    ELSE IF Head(s) = " " THEN trim(Tail(s))
    ELSE IF s[Len(s)] = " " THEN trim(SubSeq(s, 1, Len(s) - 1))
    ELSE s

\* array.join(','), as String(array) yields
RECURSIVE join(_)
join(a) ==
    IF a = <<>> THEN <<>>
    ELSE IF Len(a) = 1 THEN a[1]
    ELSE a[1] \o <<",">> \o join(Tail(a))

\* String(value) of a truthy answer value
String(v) ==
    CASE v.kind = "str" -> v.s
      [] v.kind = "bool" -> <<"t", "r", "u", "e">>
      [] v.kind = "arr" -> join(v.a)
      [] OTHER -> <<"[", "o", "b", "j", "e", "c", "t", " ", "O", "b", "j", "e", "c", "t", "]">>

gradeShortAnswer(config, answer) ==
    IF ~answer.isAnswered \/ ~Truthy(answer.value)
    THEN NoAnswerResult(config.points)
    ELSE IF Len(config.correctAnswers) = 0
    THEN ManualGradingResult(config.points)
    ELSE LET trimmed(s) == IF config.trimWhitespace THEN trim(s) ELSE s
             cased(s) == IF ~config.caseSensitive THEN toLowerCase(s) ELSE s
             userAnswer == cased(trimmed(String(answer.value)))
             isCorrect == \E i \in 1..Len(config.correctAnswers) :
                             userAnswer = cased(trimmed(config.correctAnswers[i]))
         IN  GradingResult(isCorrect, FALSE,
                           IF isCorrect THEN IntNum(config.points) ELSE Zero,
                           IntNum(config.points), "")

\* object[key] of an answer value: <<>> stands for undefined (and for '', which
\* the graders treat alike or which no pair's right side is)
Lookup(v, key) == IF v.kind = "rec" /\ key \in DOMAIN v.r THEN v.r[key] ELSE <<>>

gradeFillInBlank(config, answer) ==
    IF ~answer.isAnswered \/ ~Truthy(answer.value)
    THEN NoAnswerResult(config.points)
    ELSE LET blanks == SelectSeq(config.segments, LAMBDA seg : seg.type = "blank")
             totalBlanks == Len(blanks)
             processed(blank, s) ==
                 trim(IF blank.caseSensitive # TRUE THEN toLowerCase(s) ELSE s)
             isBlankCorrect(blank) ==
                 LET userAnswer == Lookup(answer.value, blank.id)
                 IN  /\ userAnswer # <<>>
                     /\ \E i \in 1..Len(blank.correctAnswers) :
                           processed(blank, userAnswer) = processed(blank, blank.correctAnswers[i])
             correctCount == Len(SelectSeq(blanks, isBlankCorrect))
             isFullyCorrect == correctCount = totalBlanks
             isPartiallyCorrect == correctCount > 0 /\ ~isFullyCorrect
             percentCorrect == IF totalBlanks > 0
                               THEN NumDiv(IntNum(correctCount), IntNum(totalBlanks))
                               ELSE Zero
         IN  GradingResult(isFullyCorrect, isPartiallyCorrect,
                           NumMul(percentCorrect, IntNum(config.points)),
                           IntNum(config.points), "")

gradeMatching(config, answer) ==
    IF ~answer.isAnswered \/ ~Truthy(answer.value)
    THEN NoAnswerResult(config.points)
    ELSE LET totalPairs == Len(config.pairs)
             isPairCorrect(pair) == Lookup(answer.value, pair.id) = pair.right
             correctCount == Len(SelectSeq(config.pairs, isPairCorrect))
             isFullyCorrect == correctCount = totalPairs
             isPartiallyCorrect == correctCount > 0 /\ ~isFullyCorrect
             percentCorrect == IF totalPairs > 0
                               THEN NumDiv(IntNum(correctCount), IntNum(totalPairs))
                               ELSE Zero
         IN  GradingResult(isFullyCorrect, isPartiallyCorrect,
                           NumMul(percentCorrect, IntNum(config.points)),
                           IntNum(config.points), "")

gradeQuestion(config, answer) ==
    CASE config.type = "multiple-choice" -> gradeMultipleChoice(config, answer)
      [] config.type = "true-false" -> gradeTrueFalse(config, answer)
      [] config.type = "short-answer" -> gradeShortAnswer(config, answer)
      [] config.type = "essay" -> ManualGradingResult(config.points)
      [] config.type = "fill-in-blank" -> gradeFillInBlank(config, answer)
      [] config.type = "matching" -> gradeMatching(config, answer)

\* Map helpers: a Map<string, X> is a function whose domain is its key set.
MapSet(m, key, x) == [id \in DOMAIN m \cup {key} |-> IF id = key THEN x ELSE m[id]]
MapDelete(m, key) == [id \in DOMAIN m \ {key} |-> m[id]]
EmptyMap == [id \in {} |-> NullV]

\* gradeQuiz's loop over config.questions, question i onwards: `acc` carries
\* results, totalScore and maxScore.
RECURSIVE gradeQuizFrom(_, _, _, _)
gradeQuizFrom(questions, answers, i, acc) ==
    IF i > Len(questions) THEN acc
    ELSE LET question == questions[i]
         IN  IF question.id \notin DOMAIN answers
             THEN gradeQuizFrom(questions, answers, i + 1,
                    [results |-> MapSet(acc.results, question.id, NoAnswerResult(question.points)),
                     totalScore |-> acc.totalScore,
                     maxScore |-> NumAdd(acc.maxScore, IntNum(question.points))])
             ELSE LET result == gradeQuestion(question, answers[question.id])
                  IN  gradeQuizFrom(questions, answers, i + 1,
                        [results |-> MapSet(acc.results, question.id, result),
                         totalScore |-> NumAdd(acc.totalScore, result.score),
                         maxScore |-> NumAdd(acc.maxScore, result.maxScore)])

\* A gradeQuiz whose percentage divides by maxScore even when it is 0.
M_gradeQuiz_NoZeroGuard(questions, answers) ==
    LET acc == gradeQuizFrom(questions, answers, 1,
                 [results |-> EmptyMap, totalScore |-> Zero, maxScore |-> Zero])
    IN  [totalScore |-> acc.totalScore,
         maxScore |-> acc.maxScore,
         percentage |-> NumMul(NumDiv(acc.totalScore, acc.maxScore), IntNum(100)),
         results |-> acc.results]

gradeQuiz(questions, answers) ==
    LET acc == gradeQuizFrom(questions, answers, 1,
                 [results |-> EmptyMap, totalScore |-> Zero, maxScore |-> Zero])
    IN  [totalScore |-> acc.totalScore,
         maxScore |-> acc.maxScore,
         percentage |-> IF NumGt(acc.maxScore, Zero)
                        THEN NumMul(NumDiv(acc.totalScore, acc.maxScore), IntNum(100))
                        ELSE Zero,
         results |-> acc.results]

\* ----------------------------------------------------- question components
\* The isAnswered flag useQuestionState.setAnswer and
\* BaseQuestion.handleAnswerChange give a value:
\* value !== null && value !== undefined && value !== ''
isAnsweredFlag(v) == v.kind # "null" /\ v # StrV(<<>>)

\* The QuestionAnswer useQuestionState.setAnswer builds for a value
newAnswer(config, v) == Answer(config.id, v, isAnsweredFlag(v), 1)

\* The validate function of the correctness rule useShortAnswerValidation
\* adds for a config with correctAnswers
validate(config, value) ==
    IF value = <<>> THEN FALSE
    ELSE LET trimmedValue == IF config.trimWhitespace THEN trim(value) ELSE value
             normalizedValue == IF config.caseSensitive THEN trimmedValue
                                ELSE toLowerCase(trimmedValue)
             normalizedCorrectAnswers ==
                 IF config.caseSensitive THEN config.correctAnswers
                 ELSE [i \in 1..Len(config.correctAnswers) |->
                          toLowerCase(config.correctAnswers[i])]
         IN  \E i \in 1..Len(normalizedCorrectAnswers) :
                normalizedCorrectAnswers[i] = normalizedValue

\* ------------------------------------------------------------ quiz configs

OptA == <<"a">>
OptB == <<"b">>

Option(id, correct) == [id |-> id, isCorrect |-> correct]

Question(id, type, points, options, multiple, correctAnswer) ==
    [id |-> id, type |-> type, points |-> points, options |-> options,
     allowMultiple |-> multiple, correctAnswer |-> correctAnswer]

\* The two questions of the specification's end-to-end example: a 10-point
\* single-select multiple choice whose correct option is b and a 5-point
\* true/false whose correct answer is true.
QSingle == Question("q1", "multiple-choice", 10,
                    <<Option(OptA, FALSE), Option(OptB, TRUE)>>, FALSE, FALSE)
QTrueFalse == Question("q2", "true-false", 5, <<>>, FALSE, TRUE)
\* A multi-select question none of whose options is marked correct.
QMultiNone == Question("q1", "multiple-choice", 4,
                       <<Option(OptA, FALSE), Option(OptB, FALSE)>>, TRUE, FALSE)

QuizConfig(questions, nav, skip, reqAll) ==
    [id |-> "quiz", questions |-> questions, allowNavigation |-> nav,
     allowSkip |-> skip, requireAllAnswered |-> reqAll, passingScore |-> 50]

\* The sessions explored: every combination of allowNavigation and allowSkip,
\* with requireAllAnswered set and unset, over the two question lists.
Configs ==
    {QuizConfig(<<QSingle, QTrueFalse>>, FALSE, FALSE, TRUE),
     QuizConfig(<<QSingle, QTrueFalse>>, TRUE, FALSE, FALSE),
     QuizConfig(<<QMultiNone, QTrueFalse>>, FALSE, TRUE, FALSE),
     QuizConfig(<<QMultiNone, QTrueFalse>>, TRUE, TRUE, TRUE)}

\* An id that no configured question has.
ForeignId == "zz"

QuestionIds(cfg) == {cfg.questions[i].id : i \in 1..Len(cfg.questions)}

\* The answers a caller hands to setAnswer for a question: an answered
\* selection for each, and for the multiple-choice question also the cleared,
\* unanswered answer its component emits.
AnswerPool(q, attempt) ==
    CASE q.type = "multiple-choice" ->
            {Answer(q.id, ArrV(<<OptB>>), TRUE, attempt),
             Answer(q.id, NullV, FALSE, attempt)}
      [] q.type = "true-false" ->
            {Answer(q.id, BoolV(TRUE), TRUE, attempt)}
      [] OTHER -> {Answer(q.id, NullV, FALSE, attempt)}

ForeignAnswer == Answer(ForeignId, StrV(<<"a">>), TRUE, 1)

\* Every (questionId, answer) a caller may pass to setAnswer.
SetAnswerInputs(cfg) ==
    UNION {{<<cfg.questions[i].id, a>> : a \in AnswerPool(cfg.questions[i], 1)} :
             i \in 1..Len(cfg.questions)}
    \cup {<<ForeignId, ForeignAnswer>>}

\* --------------------------------------------------------------- the hook

VARIABLES
    config,        \* options.config: the QuizConfig, fixed for the session
    state,         \* the QuizState with every queued updater applied
    rendered,      \* the QuizState of the last committed render (what closures read)
    isReviewMode,  \* the review-mode flag
    result,        \* the QuizResult submitQuiz returned to the running event handler
    batch,         \* calls made since the last commit
    grading,       \* one call of gradeQuestion: its arguments and its return value
    shuffle,       \* two calls of shuffleArray on one list with one seed
    saver,         \* the auto-save effect's timers and the saves it made
    storage,       \* the localStorage and the backend behind the storage adapters
    timer,         \* one useQuestionTimer: its state, its interval, its onTimeUp calls
    component      \* one question component: what the user entered and the answer built

vars == <<config, state, rendered, isReviewMode, result, batch,
          grading, shuffle, saver, storage, timer, component>>

\* The quiz session's variables, and those of the components modelled apart
\* from it (the grading functions, the shuffle, the auto-save timers, the
\* storage adapters, the question timer and the question components), which a
\* session step leaves alone.
hookVars == <<config, state, rendered, isReviewMode, result, batch>>
apartVars == <<grading, shuffle, saver, storage, timer, component>>

\* The value of a variable in a specification that does not exercise it.
Unused == "unused"

NoResult == [returned |-> FALSE]

\* sum of question.points
RECURSIVE SumPoints(_)
SumPoints(questions) ==
    IF questions = <<>> THEN 0 ELSE Head(questions).points + SumPoints(Tail(questions))

\* new Map(list.map(ans => [ans.questionId, ans])): a later entry replaces an
\* earlier one with the same key.
RECURSIVE MapOfAnswers(_)
MapOfAnswers(list) ==
    IF list = <<>> THEN EmptyMap
    ELSE LET last == list[Len(list)]
         IN  MapSet(MapOfAnswers(SubSeq(list, 1, Len(list) - 1)), last.questionId, last)

NoLoadedResult == [loaded |-> FALSE, answers |-> <<>>, attemptNumber |-> 1, score |-> Undefined]
LoadedQuizResult(answers, attempt, score) ==
    [loaded |-> TRUE, answers |-> answers, attemptNumber |-> attempt, score |-> score]

\* useState's initializer
InitialState(cfg, initialAnswers, loadedResult) ==
    [currentQuestionIndex |-> 0,
     answers |-> IF loadedResult.loaded THEN MapOfAnswers(loadedResult.answers)
                 ELSE initialAnswers,
     submissions |-> EmptyMap,
     status |-> IF loadedResult.loaded THEN "graded" ELSE "not-started",
     attemptNumber |-> IF loadedResult.loaded THEN loadedResult.attemptNumber ELSE 1,
     totalTimeSpent |-> 0,
     maxScore |-> IntNum(SumPoints(cfg.questions)),
     score |-> loadedResult.score]

\* The initialAnswers a caller may supply: none, one answered question, or a
\* map carrying an entry for an id the quiz does not have.
InitialAnswerMaps(cfg) ==
    {EmptyMap,
     MapSet(EmptyMap, cfg.questions[2].id, Answer(cfg.questions[2].id, BoolV(TRUE), TRUE, 1)),
     MapSet(EmptyMap, ForeignId, ForeignAnswer)}

\* The loadedResult a caller may supply: the stored second attempt of the
\* example quiz, loaded for review.
LoadedResults(cfg) ==
    IF cfg = QuizConfig(<<QSingle, QTrueFalse>>, TRUE, FALSE, FALSE)
    THEN {LoadedQuizResult(<<Answer(cfg.questions[2].id, BoolV(TRUE), TRUE, 2)>>, 2, IntNum(5))}
    ELSE {}

Init ==
    /\ config \in Configs
    /\ \E initialAnswers \in InitialAnswerMaps(config),
          loadedResult \in {NoLoadedResult} \cup LoadedResults(config) :
          state = InitialState(config, initialAnswers, loadedResult)
    /\ rendered = state
    /\ isReviewMode = FALSE
    /\ result = NoResult
    /\ batch = 0
    /\ grading = Unused /\ shuffle = Unused /\ saver = Unused /\ storage = Unused
    /\ timer = Unused /\ component = Unused

\* ------------------------------------------------------------------ memos

questionCount == Len(config.questions)

\* config.questions[state.currentQuestionIndex] || null
HasCurrentQuestion(s) ==
    s.currentQuestionIndex >= 0 /\ s.currentQuestionIndex < questionCount
currentQuestion(s) == config.questions[s.currentQuestionIndex + 1]

progress(s) ==
    [totalQuestions |-> questionCount,
     answeredQuestions |-> Cardinality({id \in DOMAIN s.answers : s.answers[id].isAnswered}),
     currentQuestionIndex |-> s.currentQuestionIndex,
     timeSpent |-> s.totalTimeSpent]

\* A canGoNext that gates on allowNavigation alone, ignoring allowSkip.
M_canGoNext_NoSkip(s) ==
    LET hasNext == s.currentQuestionIndex < questionCount - 1
    IN  IF ~config.allowNavigation
        THEN /\ hasNext
             /\ HasCurrentQuestion(s)
             /\ currentQuestion(s).id \in DOMAIN s.answers
             /\ s.answers[currentQuestion(s).id].isAnswered
        ELSE hasNext

canGoNext(s) ==
    LET hasNext == s.currentQuestionIndex < questionCount - 1
    IN  IF ~config.allowSkip /\ ~config.allowNavigation
        THEN /\ hasNext
             /\ HasCurrentQuestion(s)
             /\ currentQuestion(s).id \in DOMAIN s.answers
             /\ s.answers[currentQuestion(s).id].isAnswered
        ELSE hasNext

canGoPrevious(s) == config.allowNavigation /\ s.currentQuestionIndex > 0

canSubmitQuiz(s) ==
    IF s.status = "submitted" \/ s.status = "graded" THEN FALSE
    ELSE IF config.requireAllAnswered
         THEN progress(s).answeredQuestions = progress(s).totalQuestions
         ELSE progress(s).answeredQuestions > 0

\* --------------------------------------------------------------- handlers
\* Each handler is its guard (read from the closure, i.e. from `rendered`) and
\* the functional updater it queues (applied to `state`).

\* A call made from an event handler: it reads `rendered`, queues `next`.
Call(next) ==
    /\ batch < MaxBatch
    /\ state' = next
    /\ batch' = batch + 1
    /\ UNCHANGED <<config, rendered>>
    /\ UNCHANGED apartVars

LazyStart(status) == IF status = "not-started" THEN "in-progress" ELSE status

goToQuestionUpdater(prev, index) ==
    [prev EXCEPT !.currentQuestionIndex = index, !.status = LazyStart(@)]

\* The state goToQuestion(index) queues on prev.
goToQuestionCall(prev, index) ==
    IF index >= 0 /\ index < questionCount
    THEN goToQuestionUpdater(prev, index)
    ELSE prev

goToQuestion(index) ==
    /\ Call(goToQuestionCall(state, index))
    /\ UNCHANGED <<isReviewMode, result>>

nextQuestionUpdater(prev) ==
    [prev EXCEPT !.currentQuestionIndex = @ + 1]

\* The state nextQuestion() queues on prev, called with the closure's canGoNext.
nextQuestionCall(closure, prev) ==
    IF canGoNext(closure) THEN nextQuestionUpdater(prev) ELSE prev

nextQuestion ==
    /\ Call(nextQuestionCall(rendered, state))
    /\ UNCHANGED <<isReviewMode, result>>

previousQuestionUpdater(prev) ==
    [prev EXCEPT !.currentQuestionIndex = @ - 1]

previousQuestionCall(closure, prev) ==
    IF canGoPrevious(closure) THEN previousQuestionUpdater(prev) ELSE prev

previousQuestion ==
    /\ Call(previousQuestionCall(rendered, state))
    /\ UNCHANGED <<isReviewMode, result>>

\* A setAnswer that always marks the quiz in progress.
M_setAnswerUpdater_Restart(prev, questionId, answer) ==
    [prev EXCEPT !.answers = MapSet(@, questionId, answer), !.status = "in-progress"]

setAnswerUpdater(prev, questionId, answer) ==
    [prev EXCEPT !.answers = MapSet(@, questionId, answer), !.status = LazyStart(@)]

setAnswer(questionId, answer) ==
    /\ Call(setAnswerUpdater(state, questionId, answer))
    /\ UNCHANGED <<isReviewMode, result>>

getAnswer(s, questionId) ==
    IF questionId \in DOMAIN s.answers THEN <<s.answers[questionId]>> ELSE <<>>

\* A clearAnswer that also drops the question's stored submission.
M_clearAnswerUpdater_DropSubmission(prev, questionId) ==
    [prev EXCEPT !.answers = MapDelete(@, questionId),
                 !.submissions = MapDelete(@, questionId)]

clearAnswerUpdater(prev, questionId) ==
    [prev EXCEPT !.answers = MapDelete(@, questionId)]

clearAnswer(questionId) ==
    /\ Call(clearAnswerUpdater(state, questionId))
    /\ UNCHANGED <<isReviewMode, result>>

clearAllAnswersUpdater(prev) ==
    [prev EXCEPT !.answers = EmptyMap, !.submissions = EmptyMap]

clearAllAnswers ==
    /\ Call(clearAllAnswersUpdater(state))
    /\ UNCHANGED <<isReviewMode, result>>

\* config.questions.find(q => q.id === questionId): the first match's position, 0 if none
FindQuestion(questionId) ==
    LET hits == {i \in 1..questionCount : config.questions[i].id = questionId}
    IN  IF hits = {} THEN 0 ELSE CHOOSE i \in hits : \A j \in hits : i <= j

\* QuestionSubmission (submittedAt, a wall-clock timestamp, is left out)
Submission(questionId, answer, maxScore) ==
    [questionId |-> questionId, answer |-> answer, status |-> "submitted",
     maxScore |-> maxScore]

submitQuestionUpdater(prev, submission) ==
    [prev EXCEPT !.submissions = MapSet(@, submission.questionId, submission)]

\* The state submitQuestion(questionId) queues on prev: the answer is read
\* from the closure's state.
submitQuestionCall(closure, prev, questionId) ==
    IF questionId \in DOMAIN closure.answers /\ FindQuestion(questionId) # 0
    THEN submitQuestionUpdater(prev,
           Submission(questionId, closure.answers[questionId],
                      config.questions[FindQuestion(questionId)].points))
    ELSE prev

submitQuestion(questionId) ==
    /\ Call(submitQuestionCall(rendered, state, questionId))
    /\ UNCHANGED <<isReviewMode, result>>

\* An allSubmissions that always synthesizes from the current answer.
M_allSubmissions_NoReuse(s) ==
    [i \in 1..questionCount |->
        LET question == config.questions[i]
        IN  Submission(question.id,
                       IF question.id \in DOMAIN s.answers
                       THEN s.answers[question.id]
                       ELSE Answer(question.id, NullV, FALSE, s.attemptNumber),
                       question.points)]

\* submitQuiz's allSubmissions, from the closure's state s
allSubmissions(s) ==
    [i \in 1..questionCount |->
        LET question == config.questions[i]
        IN  IF question.id \in DOMAIN s.submissions
            THEN s.submissions[question.id]
            ELSE Submission(question.id,
                            IF question.id \in DOMAIN s.answers
                            THEN s.answers[question.id]
                            ELSE Answer(question.id, NullV, FALSE, s.attemptNumber),
                            question.points)]

\* One submission of the result: score and feedback merged in from the grading.
\* feedback <<>> stands for undefined.
GradedSubmission(sub, gradingResult) ==
    LET gr == gradingResult.results[sub.questionId]
    IN  [questionId |-> sub.questionId, answer |-> sub.answer, status |-> sub.status,
         maxScore |-> sub.maxScore,
         score |-> OrZero(gr.score),
         feedback |-> IF gr.feedback # ""
                      THEN <<[type |-> IF gr.isCorrect THEN "correct" ELSE "incorrect",
                              message |-> gr.feedback]>>
                      ELSE <<>>]

\* The QuizResult submitQuiz builds from the closure's state s.  result.answers
\* is the closure's answers map (the order of its values is not modelled).
submitQuizResult(s) ==
    LET subs == allSubmissions(s)
        gradingResult == gradeQuiz(config.questions, s.answers)
    IN  [returned |-> TRUE,
         quizId |-> config.id,
         answers |-> s.answers,
         submissions |-> [i \in 1..questionCount |-> GradedSubmission(subs[i], gradingResult)],
         score |-> gradingResult.totalScore,
         maxScore |-> gradingResult.maxScore,
         percentage |-> gradingResult.percentage,
         isPassed |-> NumGe(gradingResult.percentage, IntNum(config.passingScore)),
         timeSpent |-> s.totalTimeSpent,
         attemptNumber |-> s.attemptNumber]

submitQuizUpdater(prev, res) ==
    [prev EXCEPT !.status = "graded", !.score = res.score]

submitQuiz ==
    LET res == submitQuizResult(rendered)
    IN  /\ Call(submitQuizUpdater(state, res))
        /\ result' = res
        /\ UNCHANGED isReviewMode

\* isReviewMode has a useState of its own and no handler reads it: its toggles
\* are independent of the QuizState updates and are not counted in `batch`.
enterReviewMode ==
    /\ isReviewMode' = TRUE
    /\ UNCHANGED <<config, state, rendered, result, batch>>
    /\ UNCHANGED apartVars

exitReviewMode ==
    /\ isReviewMode' = FALSE
    /\ UNCHANGED <<config, state, rendered, result, batch>>
    /\ UNCHANGED apartVars

\* The time-spent effect's interval callback.  The interval exists while the
\* committed status is 'in-progress'; the callback runs as a task of its own,
\* never inside an event handler, and stores the whole seconds elapsed since
\* startTime, which only grow.
tickUpdater(prev, elapsed) == [prev EXCEPT !.totalTimeSpent = elapsed]

Tick(elapsed) ==
    /\ rendered.status = "in-progress"
    /\ batch = 0
    /\ elapsed >= state.totalTimeSpent
    /\ Call(tickUpdater(state, elapsed))
    /\ UNCHANGED <<isReviewMode, result>>

\* The event handler returns and React commits the queued updates: the next
\* render's closures read them.  The handler's return values go out of scope.
Render ==
    /\ batch > 0
    /\ rendered' = state
    /\ batch' = 0
    /\ result' = NoResult
    /\ UNCHANGED <<config, state, isReviewMode>>
    /\ UNCHANGED apartVars

Next ==
    \/ \E index \in -1..questionCount : goToQuestion(index)
    \/ nextQuestion
    \/ previousQuestion
    \/ \E input \in SetAnswerInputs(config) : setAnswer(input[1], input[2])
    \/ \E questionId \in QuestionIds(config) \cup {ForeignId} : clearAnswer(questionId)
    \/ clearAllAnswers
    \/ \E questionId \in QuestionIds(config) \cup {ForeignId} : submitQuestion(questionId)
    \/ submitQuiz
    \/ enterReviewMode
    \/ exitReviewMode
    \/ \E elapsed \in 0..MaxTime : Tick(elapsed)
    \/ Render

Spec == Init /\ [][Next]_vars

\* ------------------------------------------------- the grading functions
\* gradeQuestion is pure: one call of it, on a question and an answer drawn
\* from the sets below.

\* The longest array of option ids an answer carries.
MaxSelected == 4

OptC == <<"c">>
OptD == <<"d">>

\* A multi-select question with three correct options out of four.
QMulti3of4 == Question("q1", "multiple-choice", 3,
                       <<Option(OptA, TRUE), Option(OptB, TRUE),
                         Option(OptC, TRUE), Option(OptD, FALSE)>>, TRUE, FALSE)

ShortAnswerQuestion(id, points, correctAnswers, trimWhitespace, caseSensitive) ==
    [id |-> id, type |-> "short-answer", points |-> points,
     correctAnswers |-> correctAnswers, trimWhitespace |-> trimWhitespace,
     caseSensitive |-> caseSensitive]

EssayQuestion(id, points) == [id |-> id, type |-> "essay", points |-> points]

TextSegment == [type |-> "text", id |-> "", correctAnswers |-> <<>>, caseSensitive |-> FALSE]
BlankSegment(id, correctAnswers, caseSensitive) ==
    [type |-> "blank", id |-> id, correctAnswers |-> correctAnswers,
     caseSensitive |-> caseSensitive]

FillInBlankQuestion(id, points, segments) ==
    [id |-> id, type |-> "fill-in-blank", points |-> points, segments |-> segments]

MatchingPair(id, left, right) == [id |-> id, left |-> left, right |-> right]

MatchingQuestion(id, points, pairs) ==
    [id |-> id, type |-> "matching", points |-> points, pairs |-> pairs]

\* One accepted answer, compared trimmed and without regard to case.
QShort == ShortAnswerQuestion("q3", 2, <<<<"a">>>>, TRUE, FALSE)
\* No accepted answers: graded by hand.
QShortManual == ShortAnswerQuestion("q3", 2, <<>>, TRUE, FALSE)
QEssay == EssayQuestion("q4", 5)
\* Two blanks, and a text with no blank at all.
QBlanks == FillInBlankQuestion("q5", 4,
              <<TextSegment, BlankSegment("b1", <<<<"a">>>>, FALSE),
                BlankSegment("b2", <<<<"b">>>>, TRUE)>>)
QNoBlanks == FillInBlankQuestion("q5", 4, <<TextSegment>>)
\* Two pairs, and a matching question with no pair.
QPairs == MatchingQuestion("q6", 4,
              <<MatchingPair("b1", <<"x">>, <<"a">>), MatchingPair("b2", <<"y">>, <<"b">>)>>)
QNoPairs == MatchingQuestion("q6", 4, <<>>)

GradeQuestions ==
    {QSingle, QMultiNone, QMulti3of4, QTrueFalse, QShort, QShortManual, QEssay,
     QBlanks, QNoBlanks, QPairs, QNoPairs}

\* every sequence over S of length at most n
SeqsUpTo(S, n) == UNION {[1..k -> S] : k \in 0..n}

OptionIds(q) == {q.options[i].id : i \in 1..Len(q.options)}

\* An answer object with the given entries: key -> string.
Entries(keys, text) == RecV([key \in keys |-> text[key]])

\* The values an answer to q may carry: null, the empty value of the variant,
\* and values of the variant's type, right and wrong; for multiple choice every
\* array of the question's option ids, repeated ids included.
GradeValues(q) ==
    CASE q.type = "multiple-choice" ->
            {NullV, StrV(<<>>), StrV(OptB)}
            \cup {ArrV(a) : a \in SeqsUpTo(OptionIds(q), MaxSelected)}
      [] q.type = "true-false" -> {NullV, BoolV(TRUE), BoolV(FALSE)}
      [] q.type = "short-answer" ->
            {NullV, StrV(<<>>), StrV(<<"a">>), StrV(<<" ", "A", " ">>), StrV(<<"b">>)}
      [] q.type = "essay" -> {NullV, StrV(<<>>), StrV(<<"a">>)}
      [] OTHER ->
            {NullV,
             Entries({}, <<>>),
             Entries({"b1"}, [key \in {"b1"} |-> <<"a">>]),
             Entries({"b1"}, [key \in {"b1"} |-> <<"b">>]),
             Entries({"b1", "b2"}, [key \in {"b1", "b2"} |->
                                       IF key = "b1" THEN <<"A", " ">> ELSE <<"b">>]),
             Entries({"b1", "b2"}, [key \in {"b1", "b2"} |->
                                       IF key = "b1" THEN <<"a">> ELSE <<"b">>])}

GradeInputs ==
    UNION {{<<q, Answer(q.id, v, answered, 1)>> : v \in GradeValues(q), answered \in BOOLEAN} :
             q \in GradeQuestions}

NoGradingResult == GradingResult(FALSE, FALSE, Undefined, Undefined, "")

GradeInit ==
    /\ \E input \in GradeInputs :
          grading = [config |-> input[1], answer |-> input[2],
                     returned |-> FALSE, result |-> NoGradingResult]
    /\ config = Unused /\ state = Unused /\ rendered = Unused
    /\ isReviewMode = Unused /\ result = Unused /\ batch = Unused
    /\ shuffle = Unused /\ saver = Unused /\ storage = Unused
    /\ timer = Unused /\ component = Unused

CallGradeQuestion ==
    /\ ~grading.returned
    /\ grading' = [grading EXCEPT !.returned = TRUE,
                                  !.result = gradeQuestion(grading.config, grading.answer)]
    /\ UNCHANGED <<hookVars, shuffle, saver, storage, timer, component>>

GradeNext == CallGradeQuestion

GradeSpec == GradeInit /\ [][GradeNext]_vars

\* ------------------------------------------------------------ the shuffle
\* shuffleArray and seededRandom, as MultipleChoice.tsx and Matching.tsx each
\* define them, and the seed the components derive from the question's id.

\* The longest list shuffled.
MaxList == 3

\* Identifiers as the sequences of their character codes: '', 'a', 'q1', 'q2'.
ShuffleIds == {<<>>, <<97>>, <<113, 49>>, <<113, 50>>}

\* id.split('').reduce((acc, char) => acc + char.charCodeAt(0), 0)
RECURSIVE SeedOf(_)
SeedOf(id) == IF id = <<>> THEN 0 ELSE Head(id) + SeedOf(Tail(id))

\* The draws j = Math.floor(random() * (i + 1)) of seededRandom(seed)'s
\* generator for i = n - 1 down to 1, in that order.
RECURSIVE SeededDraws(_, _)
SeededDraws(seed, n) ==
    IF n <= 1 THEN <<>>
    ELSE LET next == (seed * 9301 + 49297) % 233280
         IN  <<(next * n) \div 233280>> \o SeededDraws(next, n - 1)

\* Every sequence of draws Math.random can give for a list of n elements.
RECURSIVE RandomDraws(_)
RandomDraws(n) ==
    IF n <= 1 THEN {<<>>}
    ELSE {<<j>> \o rest : j \in 0..(n - 1), rest \in RandomDraws(n - 1)}

\* The Fisher-Yates loop on the copy: positions i (0-based) from length - 1
\* down to 1, each swapped with position draws[k].
RECURSIVE FisherYates(_, _, _)
FisherYates(shuffled, i, draws) ==
    IF i <= 0 THEN shuffled
    ELSE LET j == Head(draws)
             swapped == [shuffled EXCEPT ![i + 1] = shuffled[j + 1],
                                         ![j + 1] = shuffled[i + 1]]
         IN  FisherYates(swapped, i - 1, Tail(draws))

\* The orders shuffleArray(array, seed) can return: one with a truthy seed,
\* any that Math.random's draws give when the seed is 0.
shuffleArray(array, seed) ==
    IF seed # 0
    THEN {FisherYates(array, Len(array) - 1, SeededDraws(seed, Len(array)))}
    ELSE {FisherYates(array, Len(array) - 1, draws) : draws \in RandomDraws(Len(array))}

\* A list to shuffle, the identifier the seed is derived from and the offset
\* added to it (1000 for the right side of a matching question).
ShuffleInit ==
    /\ \E array \in SeqsUpTo({OptA, OptB, OptC}, MaxList), id \in ShuffleIds, offset \in {0, 1000} :
          shuffle = [input |-> array, array |-> array, seed |-> SeedOf(id) + offset,
                     returned |-> <<>>]
    /\ config = Unused /\ state = Unused /\ rendered = Unused
    /\ isReviewMode = Unused /\ result = Unused /\ batch = Unused
    /\ grading = Unused /\ saver = Unused /\ storage = Unused
    /\ timer = Unused /\ component = Unused

\* One render's call of shuffleArray; the array passed in is copied, not
\* written.  Two calls are followed.
CallShuffleArray ==
    /\ Len(shuffle.returned) < 2
    /\ \E shuffled \in shuffleArray(shuffle.array, shuffle.seed) :
          shuffle' = [shuffle EXCEPT !.returned = Append(@, shuffled)]
    /\ UNCHANGED <<hookVars, grading, saver, storage, timer, component>>

ShuffleNext == CallShuffleArray

ShuffleSpec == ShuffleInit /\ [][ShuffleNext]_vars

\* --------------------------------------------------- the auto-save timers
\* The time-spent effect's interval and the auto-save effect's timeout, with
\* time counted in half seconds.  Each commit whose dependencies changed runs
\* the auto-save effect's cleanup (clearTimeout) and then the effect again.

\* The time-spent interval's period: 1000 ms.
TickPeriod == 2

\* The autoSaveInterval values explored: 0 (disabled), 500 ms and the 2000 ms
\* of the README's example.
AutoSaveIntervals == {0, 1, 4}

\* No timer pending.
NoTimer == -1

\* The auto-save effect's condition
AutoSaveArmed(s) ==
    /\ s.autoSaveInterval > 0
    /\ s.storageManager
    /\ s.status = "in-progress"
    /\ s.answers # {}

\* The partialResult the timeout's callback hands to storageManager.saveResult
PartialResult(answers) ==
    [answers |-> answers, score |-> 0, percentage |-> 0, isPassed |-> FALSE]

\* Effects whose auto-save cleanup leaves a pending timeout in place when the
\* condition no longer holds.
M_RunEffects_KeepTimeout(s) ==
    [s EXCEPT !.saveIn = IF AutoSaveArmed(s) THEN s.autoSaveInterval ELSE @,
              !.tickIn = IF s.status # "in-progress" THEN NoTimer
                         ELSE IF @ = NoTimer THEN TickPeriod ELSE @]

\* The effects after a commit that changed a dependency of the auto-save
\* effect: the timeout is cleared and, if the condition holds, set again; the
\* interval exists exactly while the status is 'in-progress'.
RunEffects(s) ==
    [s EXCEPT !.saveIn = IF AutoSaveArmed(s) THEN s.autoSaveInterval ELSE NoTimer,
              !.tickIn = IF s.status # "in-progress" THEN NoTimer
                         ELSE IF @ = NoTimer THEN TickPeriod ELSE @]

SaverInit ==
    /\ \E interval \in AutoSaveIntervals, manager \in BOOLEAN :
          saver = [autoSaveInterval |-> interval, storageManager |-> manager,
                   status |-> "not-started", answers |-> {},
                   tickIn |-> NoTimer, saveIn |-> NoTimer,
                   saved |-> <<>>, quiet |-> FALSE, pendingAtSubmit |-> FALSE]
    /\ config = Unused /\ state = Unused /\ rendered = Unused
    /\ isReviewMode = Unused /\ result = Unused /\ batch = Unused
    /\ grading = Unused /\ shuffle = Unused /\ storage = Unused
    /\ timer = Unused /\ component = Unused

\* The caller's actions, each followed by its commit: setAnswer,
\* clearAllAnswers and submitQuiz.  pendingAtSubmit records that the auto-save
\* timeout was pending when submitQuiz was called.
SaverSetAnswer(questionId) ==
    /\ ~saver.quiet
    /\ saver' = RunEffects([saver EXCEPT !.answers = @ \cup {questionId},
                                         !.status = LazyStart(@)])
    /\ UNCHANGED <<hookVars, grading, shuffle, storage, timer, component>>

SaverClearAllAnswers ==
    /\ ~saver.quiet
    /\ saver' = RunEffects([saver EXCEPT !.answers = {}])
    /\ UNCHANGED <<hookVars, grading, shuffle, storage, timer, component>>

SaverSubmitQuiz ==
    /\ ~saver.quiet
    /\ saver' = RunEffects([saver EXCEPT !.status = "graded",
                                         !.pendingAtSubmit = @ \/ saver.saveIn # NoTimer])
    /\ UNCHANGED <<hookVars, grading, shuffle, storage, timer, component>>

\* The caller issues no further action.
CallerStops ==
    /\ ~saver.quiet
    /\ saver' = [saver EXCEPT !.quiet = TRUE]
    /\ UNCHANGED <<hookVars, grading, shuffle, storage, timer, component>>

\* Half a second passes with no timer due.
Elapse ==
    /\ saver.tickIn # 0 /\ saver.saveIn # 0
    /\ saver.tickIn # NoTimer \/ saver.saveIn # NoTimer
    /\ saver' = [saver EXCEPT !.tickIn = IF @ = NoTimer THEN @ ELSE @ - 1,
                              !.saveIn = IF @ = NoTimer THEN @ ELSE @ - 1]
    /\ UNCHANGED <<hookVars, grading, shuffle, storage, timer, component>>

\* The interval's callback stores the elapsed seconds: totalTimeSpent, a
\* dependency of the auto-save effect, changes, and the commit runs the effect.
TickFires ==
    /\ saver.tickIn = 0
    /\ saver' = RunEffects([saver EXCEPT !.tickIn = TickPeriod])
    /\ UNCHANGED <<hookVars, grading, shuffle, storage, timer, component>>

\* The timeout's callback calls storageManager.saveResult(partialResult).
SaveFires ==
    /\ saver.saveIn = 0
    /\ saver' = [saver EXCEPT !.saveIn = NoTimer,
                              !.saved = <<PartialResult(saver.answers)>>]
    /\ UNCHANGED <<hookVars, grading, shuffle, storage, timer, component>>

SaverNext ==
    \/ \E questionId \in {"q1", "q2"} : SaverSetAnswer(questionId)
    \/ SaverClearAllAnswers
    \/ SaverSubmitQuiz
    \/ CallerStops
    \/ Elapse
    \/ TickFires
    \/ SaveFires

SaverSpec == SaverInit /\ [][SaverNext]_vars

\* Time passes and a due timer's callback runs.
SaverFairSpec ==
    SaverSpec /\ WF_vars(Elapse) /\ WF_vars(TickFires) /\ WF_vars(SaveFires)

\* ----------------------------------------------------- the storage adapters
\* LocalStorageQuizAdapter over a localStorage (a map from key strings to
\* item strings) and ApiQuizAdapter over the responses of its backend.  Keys
\* are strings, modelled character by character; an item is the JSON text the
\* adapter wrote (modelled by the value JSON.parse gives back) or a text that
\* is not JSON.

\* The highest attempt number saved.
MaxAttempt == 2

\* attemptNumber omitted; getKey and the adapters test it by truthiness, which
\* 0 fails too.
NoAttempt == 0

KeyPrefix == <<"p">>
AdapterUser == <<"u">>
StorageQuizIds == {<<"q">>, <<"r">>}

getKey(userId, quizId, attemptNumber) ==
    KeyPrefix \o <<"_">> \o userId \o <<"_">> \o quizId \o
    (IF attemptNumber # NoAttempt
     THEN <<"_", "a", "t", "t", "e", "m", "p", "t", "_", ToString(attemptNumber)>>
     ELSE <<"_", "l", "a", "t", "e", "s", "t">>)

getIndexKey(userId) ==
    KeyPrefix \o <<"_">> \o userId \o <<"_", "i", "n", "d", "e", "x">>

\* JSON.stringify followed by JSON.parse: a number that is not finite comes
\* back as null.
JsonNumber(x) == IF x.k = "fin" THEN x ELSE [k |-> "null", n |-> 0, d |-> 1]

JsonItem(v) == [json |-> TRUE, value |-> v]
NotJson == [json |-> FALSE, value |-> <<>>]

\* The fields of the LoadedQuizResult that saveResult stores, as parsed back.
StoredResult(res) ==
    [quizId |-> res.quizId, attemptNumber |-> res.attemptNumber,
     score |-> JsonNumber(res.score)]

\* array.sort((a, b) => key(a) - key(b)); keys[i] is the key of seq[i]
RECURSIVE SortAscending(_, _)
SortAscending(seq, keys) ==
    IF seq = <<>> THEN <<>>
    ELSE LET m == CHOOSE i \in 1..Len(seq) :
                     /\ \A j \in 1..Len(seq) : keys[i] <= keys[j]
                     /\ \A j \in 1..(i - 1) : keys[j] # keys[i]
             without(s) == SubSeq(s, 1, m - 1) \o SubSeq(s, m + 1, Len(s))
         IN  <<seq[m]>> \o SortAscending(without(seq), without(keys))

\* LocalStorageQuizAdapter.loadResult: <<>> stands for null
loadResult(items, userId, quizId, attemptNumber) ==
    LET key == getKey(userId, quizId, attemptNumber)
    IN  IF key \notin DOMAIN items THEN <<>>
        ELSE IF ~items[key].json THEN <<>>
        ELSE <<items[key].value>>

getIndex(items, userId) ==
    LET key == getIndexKey(userId)
    IN  IF key \in DOMAIN items /\ items[key].json THEN items[key].value ELSE EmptyMap

updateIndex(items, userId, quizId, attemptNumber) ==
    LET index == getIndex(items, userId)
        attempts == IF quizId \in DOMAIN index THEN index[quizId] ELSE <<>>
        updated == IF \E i \in 1..Len(attempts) : attempts[i] = attemptNumber
                   THEN attempts
                   ELSE SortAscending(Append(attempts, attemptNumber),
                                      Append(attempts, attemptNumber))
    IN  MapSet(items, getIndexKey(userId), JsonItem(MapSet(index, quizId, updated)))

removeFromIndex(items, userId, quizId, attemptNumber) ==
    LET index == getIndex(items, userId)
    IN  IF quizId \in DOMAIN index
        THEN LET filtered == SelectSeq(index[quizId], LAMBDA n : n # attemptNumber)
             IN  MapSet(items, getIndexKey(userId),
                        JsonItem(IF Len(filtered) = 0 THEN MapDelete(index, quizId)
                                 ELSE MapSet(index, quizId, filtered)))
        ELSE items

saveResult(items, userId, res) ==
    LET item == JsonItem(StoredResult(res))
        saved == MapSet(items, getKey(userId, res.quizId, res.attemptNumber), item)
        latest == MapSet(saved, getKey(userId, res.quizId, NoAttempt), item)
    IN  updateIndex(latest, userId, res.quizId, res.attemptNumber)

loadAllResults(items, userId, quizId) ==
    LET index == getIndex(items, userId)
        quizAttempts == IF quizId \in DOMAIN index THEN index[quizId] ELSE <<>>
        found == SelectSeq(quizAttempts,
                           LAMBDA n : loadResult(items, userId, quizId, n) # <<>>)
        results == [i \in 1..Len(found) |-> loadResult(items, userId, quizId, found[i])[1]]
    IN  SortAscending(results, [i \in 1..Len(results) |-> results[i].attemptNumber])

\* A deleteResult that, with attemptNumber omitted, leaves the latest item.
M_deleteResult_KeepLatest(items, userId, quizId, attemptNumber) ==
    IF attemptNumber # NoAttempt
    THEN removeFromIndex(MapDelete(items, getKey(userId, quizId, attemptNumber)),
                         userId, quizId, attemptNumber)
    ELSE LET index == getIndex(items, userId)
             attempts == IF quizId \in DOMAIN index THEN index[quizId] ELSE <<>>
             keys == {getKey(userId, quizId, attempts[i]) : i \in 1..Len(attempts)}
             removed == [k \in DOMAIN items \ keys |-> items[k]]
         IN  MapSet(removed, getIndexKey(userId), JsonItem(MapDelete(index, quizId)))

deleteResult(items, userId, quizId, attemptNumber) ==
    IF attemptNumber # NoAttempt
    THEN removeFromIndex(MapDelete(items, getKey(userId, quizId, attemptNumber)),
                         userId, quizId, attemptNumber)
    ELSE LET index == getIndex(items, userId)
             attempts == IF quizId \in DOMAIN index THEN index[quizId] ELSE <<>>
             keys == {getKey(userId, quizId, attempts[i]) : i \in 1..Len(attempts)}
             removed == [k \in DOMAIN items \ keys |-> items[k]]
             indexed == MapSet(removed, getIndexKey(userId), JsonItem(MapDelete(index, quizId)))
         IN  MapDelete(indexed, getKey(userId, quizId, NoAttempt))

clearAll(items, userId) ==
    LET prefix == KeyPrefix \o <<"_">> \o userId
        startsWith(key) == Len(key) >= Len(prefix) /\ SubSeq(key, 1, Len(prefix)) = prefix
    IN  [k \in {key \in DOMAIN items : ~startsWith(key)} |-> items[k]]

\* ApiQuizAdapter.loadResult on the backend's response: a status, or "network"
\* when fetch rejects; <<>> stands for null
apiLoadResult(response, data) ==
    IF response = "network" THEN <<>>
    ELSE IF response = "404" THEN <<>>
    ELSE IF response # "200" THEN <<>>
    ELSE <<data>>

\* The QuizResults saved: attempt 1 with a finite score, attempt 2 with NaN.
SavedResults ==
    {[quizId |-> q, attemptNumber |-> n, score |-> IF n = 1 THEN IntNum(5) ELSE NaN] :
        q \in StorageQuizIds, n \in 1..MaxAttempt}

NothingLoaded == [adapter |-> "none", found |-> FALSE, returned |-> <<>>]

StorageInit ==
    /\ storage = [items |-> EmptyMap, tampered |-> FALSE, server |-> FALSE,
                  loaded |-> NothingLoaded, op |-> <<>>]
    /\ config = Unused /\ state = Unused /\ rendered = Unused
    /\ isReviewMode = Unused /\ result = Unused /\ batch = Unused
    /\ grading = Unused /\ shuffle = Unused /\ saver = Unused
    /\ timer = Unused /\ component = Unused

LocalSaveResult(res) ==
    /\ storage' = [storage EXCEPT !.items = saveResult(@, AdapterUser, res),
          !.op = <<"saveResult", res.quizId, res.attemptNumber>>]
    /\ UNCHANGED <<hookVars, grading, shuffle, saver, timer, component>>

\* `found` records whether an item is stored under the key asked for; `op` (set
\* by the operations that write) is the last write the adapter made.
LocalLoadResult(quizId, attemptNumber) ==
    /\ storage' = [storage EXCEPT !.loaded =
          [adapter |-> "local",
           found |-> getKey(AdapterUser, quizId, attemptNumber) \in DOMAIN storage.items,
           returned |-> loadResult(storage.items, AdapterUser, quizId, attemptNumber)]]
    /\ UNCHANGED <<hookVars, grading, shuffle, saver, timer, component>>

LocalDeleteResult(quizId, attemptNumber) ==
    /\ storage' = [storage EXCEPT
          !.items = deleteResult(@, AdapterUser, quizId, attemptNumber),
          !.op = <<"deleteResult", quizId, attemptNumber>>]
    /\ UNCHANGED <<hookVars, grading, shuffle, saver, timer, component>>

LocalClearAll ==
    /\ storage' = [storage EXCEPT !.items = clearAll(@, AdapterUser),
          !.op = <<"clearAll">>]
    /\ UNCHANGED <<hookVars, grading, shuffle, saver, timer, component>>

\* Something other than the adapter overwrites a stored item with a text that
\* is not JSON (once).
TamperItem(key) ==
    /\ ~storage.tampered
    /\ key \in DOMAIN storage.items
    /\ storage' = [storage EXCEPT !.items = MapSet(@, key, NotJson), !.tampered = TRUE]
    /\ UNCHANGED <<hookVars, grading, shuffle, saver, timer, component>>

\* ApiQuizAdapter.saveResult answered with an ok response: the backend holds
\* the result.
ApiSaveResult ==
    /\ ~storage.server
    /\ storage' = [storage EXCEPT !.server = TRUE]
    /\ UNCHANGED <<hookVars, grading, shuffle, saver, timer, component>>

\* ApiQuizAdapter.loadResult: the backend answers 200 with the result when it
\* holds one and 404 when it does not, or fails (500, or no response at all).
ApiLoadResult(response) ==
    /\ response \in (IF storage.server THEN {"200"} ELSE {"404"}) \cup {"500", "network"}
    /\ storage' = [storage EXCEPT !.loaded =
          [adapter |-> "api", found |-> storage.server,
           returned |-> apiLoadResult(response,
                           StoredResult(CHOOSE res \in SavedResults : res.attemptNumber = 1))]]
    /\ UNCHANGED <<hookVars, grading, shuffle, saver, timer, component>>

StorageNext ==
    \/ \E res \in SavedResults : LocalSaveResult(res)
    \/ \E quizId \in StorageQuizIds, attemptNumber \in NoAttempt..MaxAttempt :
          LocalLoadResult(quizId, attemptNumber)
    \/ \E quizId \in StorageQuizIds, attemptNumber \in NoAttempt..MaxAttempt :
          LocalDeleteResult(quizId, attemptNumber)
    \/ LocalClearAll
    \/ \E key \in DOMAIN storage.items : TamperItem(key)
    \/ ApiSaveResult
    \/ \E response \in {"200", "404", "500", "network"} : ApiLoadResult(response)

StorageSpec == StorageInit /\ [][StorageNext]_vars

\* Two adapters with the same keyPrefix, for two users, over one localStorage:
\* one user id is a prefix of the other, which contains '_'; so does one of
\* the quiz ids.  `op` is the last call, with the user who made it.
UserIds == {<<"a">>, <<"a", "_", "b">>}
UserQuizIds == {<<"q">>, <<"b", "_", "q">>}

UserResults ==
    {[quizId |-> q, attemptNumber |-> 1, score |-> IntNum(score)] :
        q \in UserQuizIds, score \in {0, 5}}

UsersInit ==
    /\ storage = [items |-> EmptyMap, op |-> <<>>]
    /\ config = Unused /\ state = Unused /\ rendered = Unused
    /\ isReviewMode = Unused /\ result = Unused /\ batch = Unused
    /\ grading = Unused /\ shuffle = Unused /\ saver = Unused
    /\ timer = Unused /\ component = Unused

UserSaveResult(userId, res) ==
    /\ storage' = [items |-> saveResult(storage.items, userId, res),
                   op |-> <<"saveResult", userId>>]
    /\ UNCHANGED <<hookVars, grading, shuffle, saver, timer, component>>

UserDeleteResult(userId, quizId, attemptNumber) ==
    /\ storage' = [items |-> deleteResult(storage.items, userId, quizId, attemptNumber),
                   op |-> <<"deleteResult", userId>>]
    /\ UNCHANGED <<hookVars, grading, shuffle, saver, timer, component>>

UserClearAll(userId) ==
    /\ storage' = [items |-> clearAll(storage.items, userId),
                   op |-> <<"clearAll", userId>>]
    /\ UNCHANGED <<hookVars, grading, shuffle, saver, timer, component>>

UsersNext ==
    \/ \E userId \in UserIds, res \in UserResults : UserSaveResult(userId, res)
    \/ \E userId \in UserIds, quizId \in UserQuizIds, attemptNumber \in {NoAttempt, 1} :
          UserDeleteResult(userId, quizId, attemptNumber)
    \/ \E userId \in UserIds : UserClearAll(userId)

UsersSpec == UsersInit /\ [][UsersNext]_vars

\* ------------------------------------------------------ the question timer
\* useQuestionTimer for one timeLimit, in whole seconds.  `next` is the hook's
\* state with every queued setter applied and `shown` the state of the last
\* committed render; `interval` tells whether the interval of intervalRef is
\* set, `seesTimeUp` is the isTimeUp its callback closes over, and `timeUps`
\* counts the onTimeUp calls since the last reset.

\* The largest timeElapsed followed.
MaxElapsed == 4

TimeLimits == {1, 2, 3}

\* Math.max(0, timeLimit - newElapsed)
newRemaining(timeLimit, newElapsed) ==
    IF timeLimit - newElapsed > 0 THEN timeLimit - newElapsed ELSE 0

\* A callback condition that lets the notification fire whenever no time remains.
M_timeUpDue_NoGuard(remaining, isTimeUp) == remaining = 0

\* The interval callback's condition for the "time up" notification
timeUpDue(remaining, isTimeUp) == remaining = 0 /\ ~isTimeUp

\* The commit of the queued updates.  The timer effect depends on isRunning,
\* isTimeUp and the callbacks (timeLimit is fixed): when one of them changed,
\* its cleanup clears the interval and the effect sets a new one if the timer
\* is running.  newCallbacks: the caller passed new functions to this render.
TimerCommit(t, newCallbacks) ==
    IF \/ <<t.next.isRunning, t.next.isTimeUp>> # <<t.shown.isRunning, t.shown.isTimeUp>>
       \/ newCallbacks
    THEN [t EXCEPT !.shown = t.next, !.calls = 0,
                   !.interval = t.next.isRunning /\ t.timeLimit > 0,
                   !.seesTimeUp = t.next.isTimeUp]
    ELSE [t EXCEPT !.shown = t.next, !.calls = 0]

TimerInit ==
    /\ \E timeLimit \in TimeLimits, autoStart \in BOOLEAN :
          LET initial == [timeRemaining |-> timeLimit, timeElapsed |-> 0,
                          isRunning |-> autoStart, isTimeUp |-> FALSE]
          IN  timer = [timeLimit |-> timeLimit, shown |-> initial, next |-> initial,
                       interval |-> autoStart /\ timeLimit > 0, seesTimeUp |-> FALSE,
                       timeUps |-> 0, calls |-> 0]
    /\ config = Unused /\ state = Unused /\ rendered = Unused
    /\ isReviewMode = Unused /\ result = Unused /\ batch = Unused
    /\ grading = Unused /\ shuffle = Unused /\ saver = Unused /\ storage = Unused
    /\ component = Unused

\* A call made from an event handler; at most MaxBatch calls before the commit.
TimerCall(next) ==
    /\ timer.calls < MaxBatch
    /\ timer' = [next EXCEPT !.calls = timer.calls + 1]
    /\ UNCHANGED <<hookVars, grading, shuffle, saver, storage, component>>

start == TimerCall([timer EXCEPT !.next.isRunning = TRUE])

pause == TimerCall([timer EXCEPT !.next.isRunning = FALSE, !.interval = FALSE])

resume == TimerCall([timer EXCEPT !.next.isRunning = TRUE])

reset ==
    TimerCall([timer EXCEPT !.next = [timeRemaining |-> timer.timeLimit, timeElapsed |-> 0,
                                      isRunning |-> FALSE, isTimeUp |-> FALSE],
                            !.interval = FALSE, !.timeUps = 0])

\* The event handler returns and React commits.
TimerRender ==
    /\ timer.calls > 0
    /\ \E newCallbacks \in BOOLEAN : timer' = TimerCommit(timer, newCallbacks)
    /\ UNCHANGED <<hookVars, grading, shuffle, saver, storage, component>>

\* The interval's callback, a task of its own, followed by its commit.
TimerTick ==
    /\ timer.interval
    /\ timer.calls = 0
    /\ timer.next.timeElapsed < MaxElapsed
    /\ LET newElapsed == timer.next.timeElapsed + 1
           remaining == newRemaining(timer.timeLimit, newElapsed)
           due == timeUpDue(remaining, timer.seesTimeUp)
       IN  \E newCallbacks \in BOOLEAN : timer' = TimerCommit(
              [timer EXCEPT !.next = [timeRemaining |-> remaining,
                                      timeElapsed |-> newElapsed,
                                      isRunning |-> IF due THEN FALSE ELSE timer.next.isRunning,
                                      isTimeUp |-> due \/ timer.next.isTimeUp],
                            !.interval = IF due THEN FALSE ELSE @,
                            !.timeUps = IF due THEN @ + 1 ELSE @], newCallbacks)
    /\ UNCHANGED <<hookVars, grading, shuffle, saver, storage, component>>

TimerNext ==
    \/ start
    \/ pause
    \/ resume
    \/ reset
    \/ TimerRender
    \/ TimerTick

TimerSpec == TimerInit /\ [][TimerNext]_vars

\* ------------------------------------------------ the question components
\* One unlocked, uncontrolled question component: BaseQuestion with
\* useQuestionState around MultipleChoice, TrueOrFalse, ShortAnswer,
\* FillInBlank or Matching.  `answer` is the QuestionAnswer of
\* useQuestionState, `entered` the text last typed into a short answer's
\* input, and `picked` the right-hand item the user last selected for each
\* left-hand item of a matching question.

\* The longest text typed.
MaxText == 2

\* Short-answer configs with every combination of the two flags, over accepted
\* answers with and without surrounding blanks and capitals.
ShortAnswerConfigs ==
    {ShortAnswerQuestion("q3", 2, correctAnswers, trimWhitespace, caseSensitive) :
        correctAnswers \in {<<<<"a">>>>, <<<<"A">>, <<"b">>>>, <<<<" ", "a">>>>},
        trimWhitespace \in BOOLEAN, caseSensitive \in BOOLEAN}

\* Matching questions: one whose right-hand texts differ from the pair ids and
\* one whose right-hand texts are the pair ids.
MatchingConfigs ==
    {MatchingQuestion("q6", 4, <<MatchingPair(<<"1">>, <<"x">>, <<"a">>),
                                 MatchingPair(<<"2">>, <<"y">>, <<"b">>)>>),
     MatchingQuestion("q6", 4, <<MatchingPair(<<"a">>, <<"x">>, <<"a">>),
                                 MatchingPair(<<"b">>, <<"y">>, <<"b">>)>>)}

ComponentConfigs ==
    {QSingle, QMulti3of4, QTrueFalse, QBlanks} \cup ShortAnswerConfigs \cup MatchingConfigs

Texts == UNION {[1..k -> {"a", "A", " "}] : k \in 0..MaxText}

ComponentInit ==
    /\ \E q \in ComponentConfigs :
          component = [config |-> q, answer |-> Answer(q.id, NullV, FALSE, 1),
                       entered |-> <<>>, picked |-> EmptyMap]
    /\ config = Unused /\ state = Unused /\ rendered = Unused
    /\ isReviewMode = Unused /\ result = Unused /\ batch = Unused
    /\ grading = Unused /\ shuffle = Unused /\ saver = Unused /\ storage = Unused
    /\ timer = Unused

\* The context's setAnswer: handleAnswerChange, which in uncontrolled mode
\* calls useQuestionState.setAnswer.
handleAnswerChange(newValue, entered, picked) ==
    /\ component' = [component EXCEPT !.answer = newAnswer(component.config, newValue),
                                      !.entered = entered, !.picked = picked]
    /\ UNCHANGED <<hookVars, grading, shuffle, saver, storage, timer>>

\* MultipleChoice: the ids selected, read from answer.value
selectedIds(v) == IF v.kind = "arr" THEN v.a ELSE IF Truthy(v) THEN <<v.s>> ELSE <<>>

handleOptionChange(optionId) ==
    /\ component.config.type = "multiple-choice"
    /\ LET selected == selectedIds(component.answer.value)
           newSelection == IF \E i \in 1..Len(selected) : selected[i] = optionId
                           THEN SelectSeq(selected, LAMBDA id : id # optionId)
                           ELSE Append(selected, optionId)
       IN  handleAnswerChange(IF component.config.allowMultiple
                              THEN ArrV(newSelection) ELSE StrV(optionId),
                              component.entered, component.picked)

\* TrueOrFalse.handleChange
handleTrueFalseChange(value) ==
    /\ component.config.type = "true-false"
    /\ handleAnswerChange(BoolV(value), component.entered, component.picked)

\* ShortAnswer.handleChange on the input's text
handleChange(text) ==
    /\ component.config.type = "short-answer"
    /\ handleAnswerChange(StrV(IF component.config.trimWhitespace THEN trim(text) ELSE text),
                          text, component.picked)

\* answer.value || {}
ValueOrEmpty(v) == IF v.kind = "rec" THEN v.r ELSE EmptyMap

handleBlankChange(blankId, value) ==
    /\ component.config.type = "fill-in-blank"
    /\ handleAnswerChange(RecV(MapSet(ValueOrEmpty(component.answer.value), blankId, value)),
                          component.entered, component.picked)

\* The right-hand items offered in each select: their id is the pair's id and
\* their content the pair's right-hand text.
rightItems(pairs) ==
    [i \in 1..Len(pairs) |-> [id |-> pairs[i].id, content |-> pairs[i].right]]

\* The user picks item for the left-hand item leftId: the select's onChange
\* calls handleMatch(leftId, e.target.value) with the option's value, item.id.
handleMatch(leftId, item) ==
    /\ component.config.type = "matching"
    /\ handleAnswerChange(RecV(MapSet(ValueOrEmpty(component.answer.value), leftId, item.id)),
                          component.entered, MapSet(component.picked, leftId, item))

handleClearMatch(leftId) ==
    /\ component.config.type = "matching"
    /\ handleAnswerChange(RecV(MapDelete(ValueOrEmpty(component.answer.value), leftId)),
                          component.entered, MapDelete(component.picked, leftId))

\* useQuestionState.clearAnswer
clearComponentAnswer ==
    /\ component' = [component EXCEPT !.answer = Answer(component.config.id, NullV, FALSE, 1),
                                      !.entered = <<>>, !.picked = EmptyMap]
    /\ UNCHANGED <<hookVars, grading, shuffle, saver, storage, timer>>

ComponentNext ==
    \/ \E optionId \in {OptA, OptB} : handleOptionChange(optionId)
    \/ \E value \in BOOLEAN : handleTrueFalseChange(value)
    \/ \E text \in Texts : handleChange(text)
    \/ \E blankId \in {"b1", "b2"}, value \in {<<>>, <<"a">>} : handleBlankChange(blankId, value)
    \/ \E i \in 1..2, k \in 1..2 :
          /\ component.config.type = "matching"
          /\ handleMatch(component.config.pairs[i].id, rightItems(component.config.pairs)[k])
    \/ \E i \in 1..2 :
          /\ component.config.type = "matching"
          /\ handleClearMatch(component.config.pairs[i].id)
    \/ clearComponentAnswer

ComponentSpec == ComponentInit /\ [][ComponentNext]_vars

\* ------------------------------------------------------------------ claims

Terminal(s) == s.status \in {"submitted", "graded"}

\* C1: once the status is 'submitted' or 'graded' no step (answer edits,
\* navigation, submissions, review toggles, ticks, commits) moves it back to
\* 'not-started' or 'in-progress', and canSubmitQuiz is false in every such
\* state.  Stated of the queued state and of the committed one.
C1_TerminalStatus ==
    /\ [](Terminal(state) => ~canSubmitQuiz(state))
    /\ [](Terminal(rendered) => ~canSubmitQuiz(rendered))
    /\ [][(Terminal(state) => Terminal(state'))
          /\ (Terminal(rendered) => Terminal(rendered'))]_vars

\* A quiz graded by submitQuiz (a first attempt, not a loaded result) whose
\* answers were edited after the graded status was committed.
C1_Witness ==
    /\ rendered.status = "graded"
    /\ rendered.attemptNumber = 1
    /\ state.status = "graded"
    /\ state.answers # rendered.answers

\* C2: after the status has reached 'submitted' or 'graded', setAnswer,
\* clearAnswer and clearAllAnswers leave the answers map as it was.
C2_NoMutationAfterTerminal ==
    [][Terminal(state) => state'.answers = state.answers]_vars

\* C3: in every reachable state 0 <= currentQuestionIndex < questionCount,
\* also for navigation calls issued back-to-back against one render.
C3_IndexInRange ==
    /\ 0 <= state.currentQuestionIndex
    /\ state.currentQuestionIndex < questionCount

\* The current question's stored answer has isAnswered = true.
CurrentAnswered(s) ==
    \E i \in 1..questionCount :
        /\ i = s.currentQuestionIndex + 1
        /\ config.questions[i].id \in DOMAIN s.answers
        /\ s.answers[config.questions[i].id].isAnswered

NotLast(s) == s.currentQuestionIndex # questionCount - 1 /\ s.currentQuestionIndex < questionCount

CanGoNextRule(s) ==
    canGoNext(s) <=>
        (NotLast(s) /\ (config.allowNavigation \/ config.allowSkip \/ CurrentAnswered(s)))

\* C4: canGoNext is true iff the current question is not the last one and
\* (allowNavigation or allowSkip or the current question's stored answer has
\* isAnswered = true); with both flags off, setAnswer of an answered answer
\* for the current, non-last question makes canGoNext true on the state it
\* produces; and nextQuestion changes the index only when the canGoNext it
\* was rendered with is true.
C4_CanGoNext ==
    /\ CanGoNextRule(state)
    /\ CanGoNextRule(rendered)
    /\ nextQuestionCall(rendered, state).currentQuestionIndex # state.currentQuestionIndex
         => canGoNext(rendered)
    /\ (~config.allowNavigation /\ ~config.allowSkip) =>
         \A input \in SetAnswerInputs(config) :
            (/\ input[2].isAnswered
             /\ NotLast(state) /\ HasCurrentQuestion(state)
             /\ input[1] = currentQuestion(state).id)
            => canGoNext(setAnswerUpdater(state, input[1], input[2]))

\* A linear quiz (no navigation, no skipping) whose rendered canGoNext is
\* false and whose setAnswer just made canGoNext true on the queued state.
C4_Witness ==
    /\ ~config.allowNavigation /\ ~config.allowSkip
    /\ ~canGoNext(rendered)
    /\ canGoNext(state)
    /\ batch = 1

\* C5: from 'not-started', setAnswer, goToQuestion with a valid index, a
\* permitted nextQuestion and a permitted previousQuestion each leave the
\* status 'in-progress', and only these and submitQuiz leave 'not-started'.
C5_LazyStart ==
    [][state.status = "not-started" =>
         /\ (\/ \E input \in SetAnswerInputs(config) : setAnswer(input[1], input[2])
             \/ \E index \in 0..(questionCount - 1) : goToQuestion(index)
             \/ (nextQuestion /\ canGoNext(rendered))
             \/ (previousQuestion /\ canGoPrevious(rendered)))
            => state'.status = "in-progress"
         /\ state'.status # "not-started"
            => (\/ \E input \in SetAnswerInputs(config) : setAnswer(input[1], input[2])
                \/ \E index \in 0..(questionCount - 1) : goToQuestion(index)
                \/ nextQuestion
                \/ previousQuestion
                \/ submitQuiz)]_vars

\* C6: the key set of the answers map is a subset of the configured
\* question ids.
C6_AnswerKeysConfigured ==
    DOMAIN state.answers \subseteq QuestionIds(config)

\* sum of submission.score over a result's submissions, in list order
RECURSIVE SumSubmissionScores(_)
SumSubmissionScores(subs) ==
    IF subs = <<>> THEN Zero
    ELSE NumAdd(SumSubmissionScores(SubSeq(subs, 1, Len(subs) - 1)), subs[Len(subs)].score)

\* C7: every returned QuizResult has score = sum of its submissions' scores
\* and 0 <= score <= maxScore.
C7_ScoreIsSum ==
    result.returned =>
        /\ result.score = SumSubmissionScores(result.submissions)
        /\ NumLe(Zero, result.score)
        /\ NumLe(result.score, result.maxScore)

\* The answer snapshot the claim prescribes for question q: the stored
\* submission's, else the current answer, else the unanswered placeholder;
\* read from the QuizState the hook exposes when submitQuiz is called.
PrescribedAnswer(s, q) ==
    IF q.id \in DOMAIN s.submissions THEN s.submissions[q.id].answer
    ELSE IF q.id \in DOMAIN s.answers THEN s.answers[q.id]
    ELSE [questionId |-> q.id, value |-> NullV, isAnswered |-> FALSE,
          attemptNumber |-> s.attemptNumber]

\* C8: the result of submitQuiz lists exactly one submission per configured
\* question, in question order: the stored submission where submitQuestion
\* stored one, otherwise one synthesized from the current answer, otherwise
\* a placeholder with value null and isAnswered false; after the call the
\* status is 'graded' and state.score is result.score.
C8_OneSubmissionPerQuestion ==
    result.returned =>
        /\ Len(result.submissions) = questionCount
        /\ \A i \in 1..questionCount :
             /\ result.submissions[i].questionId = config.questions[i].id
             /\ result.submissions[i].answer = PrescribedAnswer(rendered, config.questions[i])
             /\ result.submissions[i].maxScore = config.questions[i].points
        /\ state.status = "graded"
        /\ state.score = result.score

\* submitQuiz returned with one question whose stored submission differs
\* from its current answer and another with neither submission nor answer.
C8_Witness ==
    /\ result.returned
    /\ \E id \in DOMAIN rendered.submissions :
         /\ id \in DOMAIN rendered.answers
         /\ rendered.submissions[id].answer # rendered.answers[id]
    /\ \E id \in QuestionIds(config) :
         id \notin DOMAIN rendered.submissions /\ id \notin DOMAIN rendered.answers

QuestionAnswered(s, q) == q.id \in DOMAIN s.answers /\ s.answers[q.id].isAnswered

\* C9: canSubmitQuiz is false in a terminal status; otherwise with
\* requireAllAnswered it is true iff every configured question has an
\* answered answer, and without it iff at least one configured question has.
C9_CanSubmitQuiz ==
    canSubmitQuiz(rendered) <=>
        /\ ~Terminal(rendered)
        /\ IF config.requireAllAnswered
           THEN \A i \in 1..questionCount : QuestionAnswered(rendered, config.questions[i])
           ELSE \E i \in 1..questionCount : QuestionAnswered(rendered, config.questions[i])

NoAnswerFeedback == <<[type |-> "incorrect", message |-> "No answer provided"]>>

\* C10: submitQuiz called with no answers at all (canSubmitQuiz false) still
\* returns a result: score 0, maxScore the sum of the points, every
\* submission with score 0 and the feedback 'No answer provided'.
C10_ForcedSubmit ==
    (result.returned /\ DOMAIN rendered.answers = {}) =>
        /\ result.score = Zero
        /\ result.maxScore = IntNum(SumPoints(config.questions))
        /\ \A i \in 1..questionCount :
             /\ result.submissions[i].score = Zero
             /\ result.submissions[i].feedback = NoAnswerFeedback

\* submitQuiz returned although requireAllAnswered is set, nothing is
\* answered and canSubmitQuiz was false.
C10_Witness ==
    /\ result.returned
    /\ DOMAIN rendered.answers = {}
    /\ config.requireAllAnswered
    /\ ~Terminal(rendered)
    /\ ~canSubmitQuiz(rendered)

\* The ids a caller may pass: the configured ones and one that is not.
CallerIds == QuestionIds(config) \cup {ForeignId}

\* C11: clearAnswer(id) removes the entry for id from answers, so that
\* getAnswer(id) on the state it produces is undefined, and leaves the
\* submissions, every other answer, the status and the index as they were;
\* clearAllAnswers empties the answers and the submissions and leaves the
\* status and the index as they were.
C11_ClearFrame ==
    /\ \A id \in CallerIds :
         LET next == clearAnswerUpdater(state, id)
         IN  /\ DOMAIN next.answers = DOMAIN state.answers \ {id}
             /\ getAnswer(next, id) = <<>>
             /\ \A other \in DOMAIN next.answers : next.answers[other] = state.answers[other]
             /\ next.submissions = state.submissions
             /\ next.status = state.status
             /\ next.currentQuestionIndex = state.currentQuestionIndex
    /\ LET next == clearAllAnswersUpdater(state)
       IN  /\ DOMAIN next.answers = {}
           /\ DOMAIN next.submissions = {}
           /\ next.status = state.status
           /\ next.currentQuestionIndex = state.currentQuestionIndex

\* clearAnswer has just removed the answer of a question that was answered and
\* submitted in the last render; its submission is still stored.
C11_Witness ==
    /\ batch = 1
    /\ \E id \in DOMAIN rendered.answers \cap DOMAIN rendered.submissions :
         /\ state = clearAnswerUpdater(rendered, id)
         /\ id \in DOMAIN state.submissions
         /\ getAnswer(state, id) = <<>>

\* The answer carries no answer: isAnswered is false, or the value is null or
\* empty ('' , [] or {}).
NoAnswerGiven(answer) ==
    \/ ~answer.isAnswered
    \/ answer.value.kind = "null"
    \/ (answer.value.kind = "str" /\ answer.value.s = <<>>)
    \/ (answer.value.kind = "arr" /\ answer.value.a = <<>>)
    \/ (answer.value.kind = "rec" /\ DOMAIN answer.value.r = {})

\* C12: for every question variant, whenever answer.isAnswered is false or
\* answer.value is null or empty, gradeQuestion returns score 0, isCorrect
\* false, isPartiallyCorrect false and the feedback 'No answer provided'.
C12_NoAnswerUniform ==
    (grading.returned /\ NoAnswerGiven(grading.answer)) =>
        /\ grading.result.score = Zero
        /\ ~grading.result.isCorrect
        /\ ~grading.result.isPartiallyCorrect
        /\ grading.result.feedback = "No answer provided"

\* The option ids an answer value selects: the array, or the one id of a
\* non-empty string.
Selected(v) ==
    IF v.kind = "arr" THEN v.a ELSE IF v.kind = "str" /\ v.s # <<>> THEN <<v.s>> ELSE <<>>

CorrectIds(q) == {q.options[i].id : i \in {j \in 1..Len(q.options) : q.options[j].isCorrect}}

\* the number of selected options that are correct
SelectedCorrect(q, v) ==
    Cardinality({i \in 1..Len(Selected(v)) : Selected(v)[i] \in CorrectIds(q)})

\* max(0, correct/C - incorrect/C) * points as an exact fraction; with C = 0
\* the expression is 0/0 - n/0, which JavaScript evaluates to NaN.
ExpectedMultiScore(q, v) ==
    LET C == Cardinality({j \in 1..Len(q.options) : q.options[j].isCorrect})
        correct == SelectedCorrect(q, v)
        incorrect == Len(Selected(v)) - correct
    IN  IF C = 0 THEN NaN
        ELSE IF correct - incorrect <= 0 THEN Zero
        ELSE Fin((correct - incorrect) * q.points, C)

\* C13: multi-select grading gives score = max(0, correct/C - incorrect/C) *
\* points, isCorrect iff correct = C and incorrect = 0, isPartiallyCorrect iff
\* correct > 0 and not isCorrect; single-select gives full points iff exactly
\* one option is selected and it is correct, otherwise 0.
C13_MultipleChoiceScore ==
    (/\ grading.returned
     /\ grading.config.type = "multiple-choice"
     /\ grading.answer.isAnswered
     /\ Selected(grading.answer.value) # <<>>) =>
        LET q == grading.config
            v == grading.answer.value
            C == Cardinality({j \in 1..Len(q.options) : q.options[j].isCorrect})
            correct == SelectedCorrect(q, v)
            incorrect == Len(Selected(v)) - correct
            res == grading.result
        IN  IF q.allowMultiple
            THEN /\ res.score = ExpectedMultiScore(q, v)
                 /\ res.isCorrect <=> (correct = C /\ incorrect = 0)
                 /\ res.isPartiallyCorrect <=> (correct > 0 /\ ~res.isCorrect)
            ELSE /\ res.score =
                      IF Len(Selected(v)) = 1 /\ Selected(v)[1] \in CorrectIds(q)
                      THEN IntNum(q.points) ELSE Zero
                 /\ res.isCorrect <=> (res.score = IntNum(q.points))

\* Three correct options of four with all four selected: points * 2/3.
C13_Witness ==
    /\ grading.returned
    /\ grading.config = QMulti3of4
    /\ grading.answer.isAnswered
    /\ grading.answer.value = ArrV(<<OptA, OptB, OptC, OptD>>)
    /\ grading.result.score = Fin(2 * QMulti3of4.points, 3)
    /\ grading.result.isPartiallyCorrect

\* C14: every GradingResult gradeQuestion returns is well-formed: isCorrect
\* and isPartiallyCorrect are never both true, isCorrect only with score =
\* maxScore, isPartiallyCorrect only with 0 < score < maxScore, and
\* 0 <= score <= maxScore = question.points.
C14_GradingResultWellFormed ==
    grading.returned =>
        LET res == grading.result
        IN  /\ ~(res.isCorrect /\ res.isPartiallyCorrect)
            /\ res.isCorrect => res.score = res.maxScore
            /\ res.isPartiallyCorrect => (NumLt(Zero, res.score) /\ NumLt(res.score, res.maxScore))
            /\ NumLe(Zero, res.score)
            /\ NumLe(res.score, res.maxScore)
            /\ res.maxScore = IntNum(grading.config.points)

\* What the claim prescribes of gradeQuiz on a question list and an answers
\* map: an entry for every question, the zero-score 'No answer provided' entry
\* for a question without an answer, maxScore the sum of the points, and
\* percentage totalScore / maxScore * 100, or 0 when maxScore is 0.
GradeQuizCoversAll(questions, answers) ==
    LET g == gradeQuiz(questions, answers)
        points == SumPoints(questions)
    IN  /\ DOMAIN g.results = {questions[i].id : i \in 1..Len(questions)}
        /\ \A i \in 1..Len(questions) :
             questions[i].id \notin DOMAIN answers =>
                g.results[questions[i].id] =
                   [isCorrect |-> FALSE, isPartiallyCorrect |-> FALSE, score |-> Zero,
                    maxScore |-> IntNum(questions[i].points),
                    feedback |-> "No answer provided"]
        /\ g.maxScore = IntNum(points)
        /\ g.percentage = IF points = 0 THEN Zero
                          ELSE IF g.totalScore.k = "fin"
                          THEN Fin(g.totalScore.n * 100, g.totalScore.d * points)
                          ELSE NaN

\* A question worth no points.
QZeroPoints == Question("q1", "true-false", 0, <<>>, FALSE, TRUE)

\* C15: gradeQuiz has a result entry for every configured question; a
\* question with no entry in the answers map gets the zero-score 'No answer
\* provided' result and adds its points to maxScore, so that gradeQuiz's
\* maxScore is the sum of the points and equals QuizState.maxScore in every
\* state of the session; percentage is totalScore / maxScore * 100, or 0 when
\* maxScore is 0.  The explored sessions have points to win; the quizzes
\* without (no question, or one worth 0 points) are graded directly.
C15_GradeQuizMaxScore ==
    /\ GradeQuizCoversAll(config.questions, state.answers)
    /\ state.maxScore = IntNum(SumPoints(config.questions))
    /\ GradeQuizCoversAll(<<>>, EmptyMap)
    /\ GradeQuizCoversAll(<<QZeroPoints>>, EmptyMap)
    /\ GradeQuizCoversAll(<<QZeroPoints>>,
                          MapSet(EmptyMap, "q1", Answer("q1", BoolV(TRUE), TRUE, 1)))

\* A session in progress in which the second question is answered correctly
\* and the first has no entry in the answers map.
C15_Witness ==
    /\ state.status = "in-progress"
    /\ config.questions[1].id \notin DOMAIN state.answers
    /\ config.questions[2].id \in DOMAIN state.answers
    /\ gradeQuiz(config.questions, state.answers).totalScore = IntNum(5)
    /\ gradeQuiz(config.questions, state.answers).maxScore = state.maxScore

\* the number of times x occurs in seq
Occurrences(seq, x) == Cardinality({i \in 1..Len(seq) : seq[i] = x})

\* C16: with a seed derived as the sum of the character codes of an
\* identifier, shuffleArray returns a permutation of the list (the same
\* multiset of elements, the input not modified), and two calls with the same
\* list and the same seed return the same order.
C16_ShuffleDeterministic ==
    /\ shuffle.array = shuffle.input
    /\ \A k \in 1..Len(shuffle.returned) :
         /\ Len(shuffle.returned[k]) = Len(shuffle.input)
         /\ \A x \in {OptA, OptB, OptC} :
              Occurrences(shuffle.returned[k], x) = Occurrences(shuffle.input, x)
    /\ Len(shuffle.returned) = 2 => shuffle.returned[1] = shuffle.returned[2]

\* C17: for every autoSaveInterval > 0 with a storage manager, once the status
\* is 'in-progress' and an answer exists, if the caller issues no further
\* action (only the tick keeps running), storageManager.saveResult is
\* eventually called with a partial result (score 0, percentage 0, isPassed
\* false) that contains the current answers.
C17_AutoSaveLiveness ==
    (saver.quiet /\ AutoSaveArmed(saver))
        ~> (saver.saved = <<PartialResult(saver.answers)>>)

\* C18: whenever setAnswer invokes onAnswerChange(questionId, answer), the
\* QuizState the caller can observe at that moment (the state, getAnswer,
\* progress and canGoNext of the render whose setAnswer is running) already
\* contains that answer.
C18_AnswerChangeSeesAnswer ==
    [][\A input \in SetAnswerInputs(config) :
          setAnswer(input[1], input[2]) =>
             getAnswer(rendered', input[1]) = <<input[2]>>]_vars

\* C19: for both adapters a null from loadResult implies that no result is
\* stored under the key asked for; a backend failure (a stored text that is
\* not JSON, a non-404 error status, a network error) is not reported as null.
C19_NullMeansNotFound ==
    (storage.loaded.adapter # "none" /\ storage.loaded.returned = <<>>)
        => ~storage.loaded.found

\* loadAllResults(quizId) is in ascending attemptNumber order
AscendingAttempts(items, quizId) ==
    LET all == loadAllResults(items, AdapterUser, quizId)
    IN  \A i \in 1..(Len(all) - 1) : all[i].attemptNumber < all[i + 1].attemptNumber

\* what the adapter can load of a quiz: each attempt, the latest, all
Loadable(items, quizId) ==
    <<[n \in NoAttempt..MaxAttempt |-> loadResult(items, AdapterUser, quizId, n)],
      loadAllResults(items, AdapterUser, quizId)>>

\* C20: on a localStorage that only the adapter writes, deleteResult(quizId)
\* with attemptNumber omitted deletes every attempt of that quiz: afterwards
\* loadAllResults(quizId) is empty and loadResult(quizId, _, n) is null for
\* every n and for the latest, while the results of the other quizzes are
\* unchanged; and loadAllResults always returns the stored attempts in
\* ascending attemptNumber order.
C20_DeleteAllAttempts ==
    /\ [][\A quizId \in StorageQuizIds :
            (~storage.tampered /\ LocalDeleteResult(quizId, NoAttempt)) =>
               /\ loadAllResults(storage'.items, AdapterUser, quizId) = <<>>
               /\ \A n \in NoAttempt..MaxAttempt :
                    loadResult(storage'.items, AdapterUser, quizId, n) = <<>>
               /\ \A other \in StorageQuizIds \ {quizId} :
                    Loadable(storage'.items, other) = Loadable(storage.items, other)]_vars
    /\ [](~storage.tampered =>
            \A quizId \in StorageQuizIds :
               /\ AscendingAttempts(storage.items, quizId)
               /\ Len(loadAllResults(storage.items, AdapterUser, quizId)) =
                    Cardinality({n \in 1..MaxAttempt :
                       getKey(AdapterUser, quizId, n) \in DOMAIN storage.items}))

\* Both attempts of one quiz were saved, the second first, and all attempts of
\* the other quiz have just been deleted while this one's are still stored.
C20_Witness ==
    /\ ~storage.tampered
    /\ \E quizId \in StorageQuizIds :
         /\ \E other \in StorageQuizIds \ {quizId} :
              storage.op = <<"deleteResult", other, NoAttempt>>
         /\ Len(loadAllResults(storage.items, AdapterUser, quizId)) = MaxAttempt
         /\ loadResult(storage.items, AdapterUser, quizId, NoAttempt) # <<>>
         /\ loadResult(storage.items, AdapterUser, quizId, NoAttempt)[1].attemptNumber = 1
         /\ \E other \in StorageQuizIds \ {quizId} :
              /\ getIndexKey(AdapterUser) \in DOMAIN storage.items
              /\ other \notin DOMAIN getIndex(storage.items, AdapterUser)
              /\ \A n \in NoAttempt..MaxAttempt :
                   getKey(AdapterUser, other, n) \notin DOMAIN storage.items

\* C21: once the status is 'graded' neither timer is pending, no step is a
\* tick of the time-spent interval (totalTimeSpent keeps its value) or the
\* auto-save timeout's callback, the saves made stay as they were and the
\* status stays 'graded'; also when the timeout was pending at submitQuiz.
C21_TimersCancelled ==
    /\ [](saver.status = "graded" => saver.tickIn = NoTimer /\ saver.saveIn = NoTimer)
    /\ [][saver.status = "graded" =>
            /\ ~TickFires
            /\ ~SaveFires
            /\ saver'.saved = saver.saved
            /\ saver'.status = "graded"]_vars

\* submitQuiz was called while the debounce timeout was pending (nothing had
\* been saved yet), and half-second steps are no longer possible: all timers
\* are gone.
C21_Witness ==
    /\ saver.status = "graded"
    /\ saver.pendingAtSubmit
    /\ saver.saved = <<>>
    /\ saver.autoSaveInterval > TickPeriod
    /\ ~ENABLED Elapse

\* C22: with timeLimit L > 0, onTimeUp is called in exactly the ticks that
\* bring timeElapsed to L, and after such a tick isTimeUp is true, isRunning
\* is false and the interval is cleared; between two resets it is called at
\* most once whatever start, pause and resume calls follow; and whenever the
\* timer is running timeRemaining = max(0, L - timeElapsed).
C22_TimeUpOnce ==
    /\ [](timer.timeUps <= 1)
    /\ [](timer.shown.isRunning =>
            timer.shown.timeRemaining =
               newRemaining(timer.timeLimit, timer.shown.timeElapsed))
    /\ [][TimerTick =>
            /\ (timer'.next.timeElapsed = timer.timeLimit) <=>
                  (timer'.timeUps = timer.timeUps + 1)
            /\ (timer'.next.timeElapsed = timer.timeLimit) =>
                  /\ timer'.shown.isTimeUp
                  /\ ~timer'.shown.isRunning
                  /\ ~timer'.interval]_vars
    /\ [][timer'.timeUps > timer.timeUps => TimerTick]_vars

\* After the time was up the timer was started again without a reset and has
\* ticked past the limit, with onTimeUp called once.
C22_Witness ==
    /\ timer.timeUps = 1
    /\ timer.shown.isTimeUp
    /\ timer.shown.isRunning
    /\ timer.interval
    /\ timer.shown.timeElapsed > timer.timeLimit

\* a value that is neither null nor empty: a boolean, a non-empty string, a
\* non-empty array, a record with at least one entry
NonEmptyValue(v) ==
    CASE v.kind = "null" -> FALSE
      [] v.kind = "bool" -> TRUE
      [] v.kind = "str" -> v.s # <<>>
      [] v.kind = "arr" -> v.a # <<>>
      [] OTHER -> DOMAIN v.r # {}

\* C23: the isAnswered flag of the QuestionAnswer a component builds is true
\* iff its value is non-null and non-empty, for strings, booleans, arrays of
\* option ids and records of blank/pair entries.
C23_IsAnsweredDerived ==
    component.answer.isAnswered <=> NonEmptyValue(component.answer.value)

\* C28: for a short-answer config with accepted answers, whatever its
\* caseSensitive and trimWhitespace, and a non-empty text, the rule injected
\* by useShortAnswerValidation accepts the text iff gradeQuestion reports the
\* answer with that text as correct.
C28_ValidationAgreesWithGrading ==
    (/\ component.config.type = "short-answer"
     /\ Len(component.config.correctAnswers) > 0
     /\ component.entered # <<>>)
        => (validate(component.config, component.entered) <=>
               gradeQuestion(component.config,
                             newAnswer(component.config, StrV(component.entered))).isCorrect)

\* C29: when for every pair the user has picked, for the pair's left-hand
\* item, the right-hand item of the same pair, gradeQuestion on the
\* component's answer returns isCorrect with score = points.
C29_MatchingGradedAsChosen ==
    (/\ component.config.type = "matching"
     /\ \A i \in 1..Len(component.config.pairs) :
           /\ component.config.pairs[i].id \in DOMAIN component.picked
           /\ component.picked[component.config.pairs[i].id] =
                 rightItems(component.config.pairs)[i])
        => LET graded == gradeQuestion(component.config, component.answer)
           IN  graded.isCorrect /\ graded.score = IntNum(component.config.points)

\* C24: in a quiz with allowNavigation = false no step of the session moves
\* currentQuestionIndex to an earlier question.
C24_NoBackwardNavigation ==
    [][~config.allowNavigation =>
          state'.currentQuestionIndex >= state.currentQuestionIndex]_vars

\* C25: in the result of submitQuiz every submission's score is the grade of
\* the answer that submission carries (a score that is not a number counting
\* as 0, as the result stores it), also when the answer was changed or cleared
\* after submitQuestion stored the submission.
C25_ScoreOfOwnSnapshot ==
    result.returned =>
        \A i \in 1..questionCount :
           result.submissions[i].score =
              OrZero(gradeQuestion(config.questions[i], result.submissions[i].answer).score)

\* C26: submitQuiz grades the answers as every setAnswer and clearAnswer call
\* that returned before it left them, also when those calls were made in the
\* same event handler: the result's answers are the answers with every queued
\* update applied and its score is their grade.
C26_SubmitSeesEarlierCalls ==
    [][submitQuiz =>
          /\ result'.answers = state.answers
          /\ result'.score = gradeQuiz(config.questions, state.answers).totalScore]_vars

\* C27: on a localStorage that only the adapter writes, loadResult(quizId)
\* without attemptNumber returns null when no attempt of the quiz is stored
\* and otherwise the stored attempt with the highest attemptNumber, the last
\* element of loadAllResults(quizId).
C27_LatestConsistent ==
    ~storage.tampered =>
        \A quizId \in StorageQuizIds :
           LET all == loadAllResults(storage.items, AdapterUser, quizId)
               latest == loadResult(storage.items, AdapterUser, quizId, NoAttempt)
           IN  IF all = <<>> THEN latest = <<>> ELSE latest = <<all[Len(all)]>>

\* what the adapter of userId can load: each quiz's attempt, latest and all
UserView(items, userId) ==
    [quizId \in UserQuizIds |->
        <<loadResult(items, userId, quizId, 1), loadResult(items, userId, quizId, NoAttempt),
          loadAllResults(items, userId, quizId)>>]

\* C30: a saveResult, deleteResult or clearAll made through the adapter of one
\* user leaves everything the adapter of every other user can load unchanged,
\* also when one user id is a prefix of the other or contains '_'.
C30_UserIsolation ==
    [][\A userId \in UserIds :
          storage'.op[2] = userId =>
             \A other \in UserIds \ {userId} :
                UserView(storage'.items, other) = UserView(storage.items, other)]_vars

====
